---- MODULE Spec2Model ----
(***************************************************************************)
(* Ludoist server: the per-client Connection (message loop thread and      *)
(* keep-alive monitor thread), the wire messages of server/responses.py    *)
(* and the LudoistServer accept loop with its connection table and game    *)
(* registry.                                                               *)
(*                                                                         *)
(* Threads are modelled by program counters (hpc: Connection._handler,     *)
(* kpc: Connection._keep_alive, spc: LudoistServer.start/_runner).  One    *)
(* action is one uninterrupted stretch of a thread between two accesses to *)
(* state shared with another thread.  Time is the wall clock read by       *)
(* time.time(); it advances (Tick) only while every thread is blocked in   *)
(* recv, Event.wait or accept: computation takes no time.                  *)
(***************************************************************************)
EXTENDS Integers, Sequences, FiniteSets, TLC

(***************************************************************************)
(* Bounds of the model.                                                    *)
(***************************************************************************)
\* packets the clients send in one behaviour of Spec (all connections together)
MaxMsgs == 2
\* packets a client may have in flight, sent and not yet received
MaxInFlight == 1
\* clock ticks in one behaviour of Spec
MaxTicks == 5

\* the connections, one per peer socket
Addrs == {1, 2, 3}
\* the (host, port) a connection is accepted from, its key in the connection
\* table: 1 and 2 have addresses of their own; 3 is made from the address of 1,
\* which a client can bind again once the socket of 1 is gone
AddrOf(c) == IF c = 3 THEN 1 ELSE c
\* the peers that connect in Spec (each at most once)
Clients == {1}
\* seconds per clock tick
TickSteps == {10}

(***************************************************************************)
(* Program constants.                                                      *)
(***************************************************************************)
OP_CODE_ERROR == 0
OP_CODE_HELLO == 1
OP_CODE_PONG == 2
OP_CODE_LIST_GAMES == 3
OP_CODE_PING == 20
OP_CODE_REQUEST_GAMES == 21
\* Connection.__init__: self._ping_interval = 40
PING_INTERVAL == 40
\* Connection._handler: make_hello_message(self._ping_interval - 10)
HELLO_MARGIN == 10
\* Connection._inc_violation: diff > 300, diff < 300
VIOLATION_WINDOW == 300
\* Connection._inc_violation: self._violations > 8
MAX_VIOLATIONS == 8
\* the value _process_packet returns as op code on failure
OP_FAILED == 0 - 1
\* time.time() when the server starts: seconds since 1970, far above the window
StartTime == 1700000000

None == "None"

(***************************************************************************)
(* Inbound packets.  A packet is the byte string one recv returns, given   *)
(* by its bytes (name) and what bytes.decode and json.loads do with it:    *)
(*   utf8  the bytes are valid UTF-8 (bytes.decode() does not raise)       *)
(*   rfc   the text is a JSON text of RFC 8259                             *)
(*   py    json.loads accepts the text: every JSON text, and also texts    *)
(*         using the literals NaN, Infinity and -Infinity                  *)
(*   val   the Python value json.loads returns                             *)
(***************************************************************************)
Absent == [t |-> "absent", n |-> 0]
VNull == [t |-> "null", n |-> 0]
VNaN == [t |-> "nan", n |-> 0]
VList == [t |-> "list", n |-> 0]

VInt(k) == [t |-> "int", n |-> k]

VFloat(k) == [t |-> "float", n |-> k]

VBool(b) == [t |-> "bool", n |-> IF b THEN 1 ELSE 0]

VStr(k) == [t |-> "str", n |-> k]

VDict(op, d) == [t |-> "dict", n |-> 0, op |-> op, d |-> d]

Pkt(name, utf8, rfc, py, val) ==
    [name |-> name, utf8 |-> utf8, rfc |-> rfc, py |-> py, val |-> val]

PktBadUtf8 == Pkt("\\xff", FALSE, FALSE, FALSE, Absent)
PktEmpty == Pkt("", TRUE, FALSE, FALSE, Absent)
PktGarbage == Pkt("hello", TRUE, FALSE, FALSE, Absent)
PktNaN == Pkt("NaN", TRUE, FALSE, TRUE, VNaN)
PktOpNaN == Pkt("{op:NaN}", TRUE, FALSE, TRUE, VDict(VNaN, Absent))
PktNull == Pkt("null", TRUE, TRUE, TRUE, VNull)
PktList == Pkt("[1]", TRUE, TRUE, TRUE, VList)
PktNoOp == Pkt("{d:1}", TRUE, TRUE, TRUE, VDict(Absent, VInt(1)))
PktOpStr == Pkt("{op:'20'}", TRUE, TRUE, TRUE, VDict(VStr(20), Absent))
PktOpFloatPing == Pkt("{op:20.0}", TRUE, TRUE, TRUE, VDict(VFloat(20), Absent))
PktOpTrue == Pkt("{op:true}", TRUE, TRUE, TRUE, VDict(VBool(TRUE), Absent))
PktOpNull == Pkt("{op:null}", TRUE, TRUE, TRUE, VDict(VNull, Absent))
PktPing == Pkt("{op:20}", TRUE, TRUE, TRUE, VDict(VInt(20), Absent))
PktRequestGames == Pkt("{op:21}", TRUE, TRUE, TRUE, VDict(VInt(21), Absent))
PktUnknownOp == Pkt("{op:99}", TRUE, TRUE, TRUE, VDict(VInt(99), Absent))
PktMinusOne == Pkt("{op:-1}", TRUE, TRUE, TRUE, VDict(VInt(0 - 1), Absent))

\* op codes a client may use for CREATE_GAME: codes of the client range 20-39
\* that responses.py leaves free
CreateOps == {22, 39}

\* the payload of a CREATE_GAME message: name "Room A", players [], and rules with
\* the given allowed_players (0: no rules given)
VGameData(allowed) == [t |-> "game", n |-> allowed]

\* {"op": k, "d": {"name": "Room A", "players": []}}
PktCreateGame(k) ==
    Pkt("{op:k,d:{name:'Room A',players:[]}}", TRUE, TRUE, TRUE,
        VDict(VInt(k), VGameData(0)))

\* {"op": k, "d": {"name": "Room A", "players": [], "rules": {"allowed_players": 5}}}
PktCreateBadRules(k) ==
    Pkt("{op:k,d:{name:'Room A',players:[],rules:{allowed_players:5}}}", TRUE, TRUE, TRUE,
        VDict(VInt(k), VGameData(5)))

\* {"op": k, "d": {"id": "a", "name": "Room A", "players": []}}
PktCreateWithId(k) ==
    Pkt("{op:k,d:{id:'a',name:'Room A',players:[]}}", TRUE, TRUE, TRUE,
        VDict(VInt(k), [t |-> "game", n |-> 0, id |-> "a"]))

\* CREATE_GAME messages that pass and that fail the validation of Game
ValidCreate == {PktCreateGame(k) : k \in CreateOps}
InvalidCreate == {PktCreateBadRules(k) : k \in CreateOps}
\* CREATE_GAME messages that pass the validation and carry an "id"
CreateWithId == {PktCreateWithId(k) : k \in CreateOps}

\* bytes that neither decode nor parse
Unparsable == {PktBadUtf8, PktEmpty, PktGarbage}

\* with them: texts json.loads accepts although they are no JSON, JSON texts
\* without an integer "op", JSON objects with an integer "op", CREATE_GAME
Packets ==
    Unparsable
       \cup {PktNaN, PktOpNaN}
       \cup {PktNull, PktList, PktNoOp, PktOpStr, PktOpFloatPing, PktOpTrue, PktOpNull}
       \cup {PktPing, PktRequestGames, PktUnknownOp, PktMinusOne}
       \cup ValidCreate \cup InvalidCreate \cup CreateWithId

\* the packets the clients of Spec send: one of each kind the message loop tells apart
SpecPackets == {PktGarbage, PktNoOp, PktPing, PktRequestGames, PktUnknownOp, PktMinusOne}

VARIABLES
    now,                \* time.time()
    spc,                \* main thread: LudoistServer.start / _runner
    pending,            \* the connection _runner has constructed and not yet stored
    connections,        \* LudoistServer._connections: its keys, in dict order
    games,              \* LudoistServer._games: its values, in dict order
    hpc,                \* per connection: the Connection thread (_handler)
    kpc,                \* per connection: the _keep_alive thread
    running,            \* Connection._running
    sock,               \* Connection._sock: "open" or "closed" (by _close)
    violations,         \* Connection._violations
    last_violation_at,  \* Connection._last_violation_at
    ping_recv,          \* Connection._ping_recv (threading.Event)
    wait_start,         \* when the monitor's current Event.wait began
    packet,             \* _listen: the packet recv returned
    ret,                \* _listen: op, data returned by _process_packet
    peer,               \* the client's end: "none", "open", "reset", "gone"
    inbox,              \* packets sent by the client and not yet received
    sent,               \* messages the server wrote to the socket, in order
    budget,             \* packets the clients may still send
    hist,               \* history of the connection, for stating properties
    call,               \* the last call of a registry, game or message function
    stamp,              \* per game id: when it entered the registry, 0 when absent
    ncalls,             \* number of registry calls made so far
    client,             \* client Connection: _running, _ready, _ping_interval,
                        \* _pong_recv, and where its keep-alive thread is
    futures,            \* client Connection._futures: per op code, its list of futures
    fut,                \* the futures _wait_for has created, by number
    cpc,                \* the thread that calls list_games and create_game
    lpc,                \* the client's Connection thread (_handler, _listen)
    wire,               \* messages written to the client and not yet received by it
    out,                \* requests the client has written
    chist               \* history of the client, for stating properties

vars == <<now, spc, pending, connections, games, hpc, kpc, running, sock,
          violations, last_violation_at, ping_recv, wait_start, packet, ret,
          peer, inbox, sent, budget, hist, call, stamp, ncalls,
          client, futures, fut, cpc, lpc, wire, out, chist>>

\* the client Connection, its threads and its end of the socket
clientvars == <<client, futures, fut, cpc, lpc, wire, out, chist>>

\* what the connections and the accept loop never touch
regvars == <<call, stamp, ncalls, clientvars>>

\* what the registry functions never touch
connvars == <<now, spc, pending, connections, hpc, kpc, running, sock,
              violations, last_violation_at, ping_recv, wait_start, packet, ret,
              peer, inbox, sent, budget, hist, clientvars>>

\* what the client never touches
servervars == <<now, spc, pending, connections, games, hpc, kpc, running, sock,
                violations, last_violation_at, ping_recv, wait_start, packet, ret,
                peer, inbox, sent, budget, hist, call, stamp, ncalls>>

NoPacket == Pkt("none", FALSE, FALSE, FALSE, Absent)

(***************************************************************************)
(* client/connection.py: the fields of the client Connection               *)
(***************************************************************************)
\* calls of list_games one run of the client makes
MaxRequests == 2

\* the op codes _wait_for is called with
ClientOps == {OP_CODE_LIST_GAMES}

\* PING messages the keep-alive thread of the client sends in one run
MaxPings == 2

\* Connection.__init__ of the client
NoClient ==
    [running |-> FALSE, ready |-> FALSE, ping_interval |-> 0,
     pong_recv |-> FALSE, keep_alive |-> "unstarted"]

\* a future not yet created; "pending" once created, "finished" by set_result
NoFuture == [state |-> "none", result |-> [d |-> <<>>, re |-> 0]]

\* no message: re is the number of the request a message answers (0: none)
NoMsg == [op |-> 0 - 1, d |-> <<>>, re |-> 0]

(***************************************************************************)
(* History kept per connection.  It records what happened; no action reads *)
(* it to decide what the program does.                                     *)
(***************************************************************************)
NoHist ==
    [handled |-> 0,          \* packets the message loop has handled
     last |->                \* the packet handled last and what handling it did
        [pkt |-> NoPacket, outcome |-> "none", replies |-> <<>>,
        viol_before |-> 0, viol_after |-> 0, ping_before |-> FALSE, ping_after |-> FALSE,
        running_before |-> FALSE, running_after |-> FALSE,
        table_before |-> FALSE, table_after |-> FALSE],
     nviol |-> 0,            \* calls of _inc_violation
     streak |-> 0,           \* latest violations in a row, each under 300 s after the one before
     viol_at |-> 0,          \* when _inc_violation was last called (0: never)
     gap |-> 0 - 1,          \* seconds between the last two violations (-1: fewer than two)
     timed_out |-> FALSE,    \* a wait of the monitor expired unset while running
     ka_closed |-> FALSE,    \* the monitor has closed the connection
     hello_at |-> 0,         \* when HELLO was written (0: not yet)
     ping_due |-> 0,         \* when the client's next PING is due (0: no HELLO yet)
     compliant |-> TRUE,     \* the client has sent every PING when due
     pings |-> 0,            \* PING packets the message loop has dispatched
     owed |-> FALSE,         \* a PING was dispatched and no PONG written since
     closes |-> 0,           \* calls of _close
     silent_since |-> 0]     \* start of the monitor wait that expired

(***************************************************************************)
(* server/responses.py                                                     *)
(***************************************************************************)
\* msg = {"op": op_code, "d": data}; if data is not None: msg["d"] = data
make_message(op_code, data) == [op |-> op_code, d |-> data]

make_hello_message(ping_interval) ==
    make_message(OP_CODE_HELLO, [ping_interval |-> ping_interval])

\* error_code is not put into the message
make_error_message(error_code, message) ==
    make_message(OP_CODE_ERROR, [message |-> message])

make_pong_message == make_message(OP_CODE_PONG, None)

ERR_PING_TIMEOUT == 1001
ERR_UNPARSABLE_DATA == 1002
ERR_INVALID_DATA_FORMAT == 1003

MsgUnparsable == make_error_message(ERR_UNPARSABLE_DATA, "data could not be parsed as JSON")
MsgMissingOp == make_error_message(ERR_INVALID_DATA_FORMAT, "missing OP code")
MsgInvalidOp == make_error_message(ERR_INVALID_DATA_FORMAT, "invalid OP code")
MsgPingTimeout == make_error_message(ERR_PING_TIMEOUT, "no PING received")

\* the interval announced in HELLO
\* a faulty variant: the full monitor interval is announced, without the margin
HelloIntervalNoMargin == PING_INTERVAL
HelloInterval == PING_INTERVAL - HELLO_MARGIN

(***************************************************************************)
(* common/games.py: the projections of a game sent in listings             *)
(***************************************************************************)
\* common/enums.py: GameState
GameState_waiting == 0
GameState_ready == 1
GameState_running == 2
GameState_ended == 3

GameState == {GameState_waiting, GameState_ready, GameState_running, GameState_ended}

\* GameRules.allowed_players = fields.Literal(2, 3, 4, default=2)
AllowedPlayers == {2, 3, 4}

\* the most players a game value of the inputs holds
MaxPlayers == 4

\* ids, names, passwords, tokens and boards the game values are drawn from
GameIds == {"a", "b"}
GameNames == {"Room A", "Room B"}
Passwords == {None, "pw1", "pw2"}
Tokens == {None, "tok1", "tok2"}
INITIAL_BOARD == "all pieces in the yard"
Boards == {INITIAL_BOARD, "a piece moved"}

\* a GamePlayer: id, token, owner, name, piece_color
GamePlayer(i, tok) ==
    [id |-> i, token |-> tok, owner |-> (i = 1), name |-> "player", piece_color |-> None]

\* a Game: id, password, name, state, rules, players, board, password_protected
Game(id, password, name, state, allowed, n, tok, board) ==
    [id |-> id, password |-> password, name |-> name, state |-> state,
     rules |-> [allowed_players |-> allowed],
     players |-> [i \in 1..n |-> GamePlayer(i, tok)],
     board |-> board, password_protected |-> None]

\* the game values the game functions are applied to
GameInputs ==
    {Game("a", pw, "Room A", st, al, n, tok, b) :
        pw \in Passwords, st \in GameState, al \in AllowedPlayers,
        n \in 0..MaxPlayers, tok \in Tokens, b \in Boards}

\* Game(data) passes the validation of the schema: rules.allowed_players is one
\* of Literal(2, 3, 4), state is a GameState, board is a list of 4 items, and
\* players is a list of mappings (SchemaList.value_load), of any length
GameValidates(g) ==
    /\ g.rules.allowed_players \in AllowedPlayers
    /\ g.state \in GameState
    /\ g.board \in Boards
    /\ \A i \in 1..Len(g.players) : DOMAIN g.players[i] = DOMAIN GamePlayer(i, None)

\* the lengths of the players list of the games put into the registry
RegistryPlayers == {0, 3}

\* the game values put into the registry: two ids, two names and two players
\* lists per id, every one a value Game(data) builds
RegistryGames ==
    {g \in {Game(id, None, name, GameState_waiting, 2, n, None, INITIAL_BOARD) :
               id \in GameIds, name \in GameNames, n \in RegistryPlayers} :
        GameValidates(g)}

\* a faulty variant: a full game still counts as joinable
is_joinable_full(g) ==
    /\ Len(g.players) <= g.rules.allowed_players
    /\ g.state \in {GameState_ready, GameState_waiting}

\* Game.is_joinable
is_joinable(g) ==
    /\ Len(g.players) < g.rules.allowed_players
    /\ g.state \in {GameState_ready, GameState_waiting}

\* GamePlayer.get_public_view: self.dump(exclude=["token"])
get_public_view(p) ==
    [id |-> p.id, owner |-> p.owner, name |-> p.name, piece_color |-> p.piece_color]

\* a faulty variant: the players are listed in reverse order
get_overview_reversed(g) ==
    [id |-> g.id, name |-> g.name, state |-> g.state, rules |-> g.rules,
     players |-> [i \in 1..Len(g.players) |->
                     get_public_view(g.players[Len(g.players) + 1 - i])],
     password_protected |-> g.password # None]

\* a faulty variant: the password is left in the dump
get_overview_with_password(g) ==
    [id |-> g.id, name |-> g.name, state |-> g.state, rules |-> g.rules,
     password |-> g.password,
     players |-> [i \in 1..Len(g.players) |-> get_public_view(g.players[i])],
     password_protected |-> g.password # None]

\* Game.get_overview
get_overview(g) ==
    [id |-> g.id, name |-> g.name, state |-> g.state, rules |-> g.rules,
     players |-> [i \in 1..Len(g.players) |-> get_public_view(g.players[i])],
     password_protected |-> g.password # None]

\* LudoistServer.list_games: list(self._games.values())
list_games == games

(***************************************************************************)
(* LudoistServer._games: a dict, kept as the sequence of its values in     *)
(* dict order (the order in which the keys were inserted)                  *)
(***************************************************************************)
\* what dict.get and dict.pop return for a missing key
NoGame == [id |-> None]

\* key in d
DictHas(reg, id) == \E i \in 1..Len(reg) : reg[i].id = id

DictIndex(reg, id) == CHOOSE i \in 1..Len(reg) : reg[i].id = id

\* d.get(key)
DictGet(reg, id) == IF DictHas(reg, id) THEN reg[DictIndex(reg, id)] ELSE NoGame

\* a faulty variant: the game is added without looking for its id
DictSetAppend(reg, g) == Append(reg, g)

\* a faulty variant: a stored game is dropped and the new one put last
DictSetLast(reg, g) == Append(SelectSeq(reg, LAMBDA x : x.id # g.id), g)

\* d[key] = value: a present key keeps its place, a new key goes last
DictSet(reg, g) ==
    IF DictHas(reg, g.id)
    THEN [reg EXCEPT ![DictIndex(reg, g.id)] = g]
    ELSE Append(reg, g)

\* a faulty variant: nothing is removed
DictPopKeeps(reg, id) == reg

\* d.pop(key, None): what is left
DictPop(reg, id) == SelectSeq(reg, LAMBDA x : x.id # id)

\* no call made yet
NoCall == [fn |-> "none", arg |-> None, res |-> None, before |-> <<>>]

(***************************************************************************)
(* Connection._process_packet, without its sends                           *)
(***************************************************************************)
\* packet.decode(); json.loads(data): whether either raises
LoadsRaises(p) == ~p.utf8 \/ ~p.py

\* data["op"]: raises TypeError on a value that is no dict, KeyError without the key
GetOpRaises(p) == p.val.t # "dict" \/ p.val.op = Absent

\* Python's ==  between a decoded value and an int: 20.0 == 20 and True == 1 hold
PyEq(v, k) == v.t \in {"int", "float", "bool"} /\ v.n = k

\* what _process_packet does with p: its return value, and the reply it sends
ProcessPacket(p) ==
    IF LoadsRaises(p)
    THEN [ok |-> FALSE, op |-> VInt(OP_FAILED), d |-> VNull, reply |-> MsgUnparsable]
    ELSE IF GetOpRaises(p)
    THEN [ok |-> FALSE, op |-> VInt(OP_FAILED), d |-> VNull, reply |-> MsgMissingOp]
    ELSE [ok |-> TRUE, op |-> p.val.op,
          d |-> IF p.val.d = Absent THEN VNull ELSE p.val.d, reply |-> None]

(***************************************************************************)
(* Connection._send_data, _close, _inc_violation                           *)
(***************************************************************************)
\* a faulty variant: a send on a socket closed by _close still writes
CanSendClosed(c) == peer[c] = "open"

\* socket.send raises OSError on a socket closed by _close and on a peer that is gone
CanSend(c) == sock[c] = "open" /\ peer[c] = "open"

SendOK(c, msg) ==
    /\ sent' = [sent EXCEPT ![c] = Append(@, msg)]
    /\ UNCHANGED peer

\* the failed send consumes the pending reset of the socket
SendFails(c) ==
    /\ peer' = [peer EXCEPT ![c] = IF @ = "reset" THEN "gone" ELSE @]
    /\ UNCHANGED sent

\* self._server._connections.pop(self._addr, None): removes what is stored under
\* the address of c, which is c or a later connection from the same address
Pop(table, c) == SelectSeq(table, LAMBDA a : AddrOf(a) # AddrOf(c))

\* self._connections[addr] = connection: under a key that is present the stored
\* connection is replaced in place, a new key goes last
SetItem(table, c) ==
    IF \E i \in 1..Len(table) : AddrOf(table[i]) = AddrOf(c)
    THEN [i \in 1..Len(table) |-> IF AddrOf(table[i]) = AddrOf(c) THEN c ELSE table[i]]
    ELSE Append(table, c)

\* a faulty variant: the running flag is left as it is
CloseKeepsFlag(c) ==
    /\ UNCHANGED running
    /\ sock' = [sock EXCEPT ![c] = "closed"]
    /\ connections' = Pop(connections, c)

\* _close: self._running = False; self._sock.close();
\* self._server._connections.pop(self._addr, None)
Close(c) ==
    /\ running' = [running EXCEPT ![c] = FALSE]
    /\ sock' = [sock EXCEPT ![c] = "closed"]
    /\ connections' = Pop(connections, c)

\* diff = time.time() - self._last_violation_at
Diff(c) == now - last_violation_at[c]

\* self._violations after _inc_violation: incremented, then reset when diff > 300
IncViolationCount(c) ==
    IF Diff(c) > VIOLATION_WINDOW THEN 0 ELSE violations[c] + 1

\* a faulty variant: the comparison with the threshold is turned around and
\* the window is not looked at
IncViolationClosesEarly(c) == IncViolationCount(c) < MAX_VIOLATIONS

IncViolationCloses(c) ==
    Diff(c) < VIOLATION_WINDOW /\ IncViolationCount(c) > MAX_VIOLATIONS

inc_violation(c) ==
    /\ violations' = [violations EXCEPT ![c] = IncViolationCount(c)]
    /\ UNCHANGED last_violation_at
    /\ IF IncViolationCloses(c)
       THEN Close(c)
       ELSE UNCHANGED <<running, sock, connections>>

\* the history of one more violation
HistViolation(h) ==
    [h EXCEPT !.nviol = @ + 1,
              !.viol_at = now,
              !.gap = IF h.nviol = 0 THEN 0 - 1 ELSE now - h.viol_at,
              !.streak = IF h.nviol = 0 \/ now - h.viol_at < VIOLATION_WINDOW
                         THEN @ + 1 ELSE 1]

InTable(c) == \E i \in 1..Len(connections) : connections[i] = c

(***************************************************************************)
(* Initial state: LudoistServer.__init__, then start() calls _runner.      *)
(***************************************************************************)
InitWith(n) ==
    /\ now = StartTime
    /\ spc = "accept"
    /\ pending = {}
    /\ connections = <<>>
    /\ games = <<>>
    /\ hpc = [c \in Addrs |-> "init"]
    /\ kpc = [c \in Addrs |-> "init"]
    /\ running = [c \in Addrs |-> FALSE]
    /\ sock = [c \in Addrs |-> "none"]
    /\ violations = [c \in Addrs |-> 0]
    /\ last_violation_at = [c \in Addrs |-> 0]
    /\ ping_recv = [c \in Addrs |-> FALSE]
    /\ wait_start = [c \in Addrs |-> 0]
    /\ packet = [c \in Addrs |-> NoPacket]
    /\ ret = [c \in Addrs |-> <<Absent, Absent>>]
    /\ peer = [c \in Addrs |-> "none"]
    /\ inbox = [c \in Addrs |-> <<>>]
    /\ sent = [c \in Addrs |-> <<>>]
    /\ budget = n
    /\ hist = [c \in Addrs |-> NoHist]
    /\ call = NoCall
    /\ stamp = [i \in GameIds |-> 0]
    /\ ncalls = 0
    /\ client = NoClient
    /\ futures = [op \in ClientOps |-> [has |-> FALSE, list |-> <<>>]]
    /\ fut = [k \in 1..MaxRequests |-> NoFuture]
    /\ cpc = [pc |-> "idle", n |-> 0]
    /\ lpc = [pc |-> "init", msg |-> NoMsg, i |-> 0]
    /\ wire = <<>>
    /\ out = <<>>
    /\ chist = [hello |-> FALSE, served |-> 0, handled |-> {}, returned |-> <<>>,
                pings |-> 0, pongs |-> 0]

Init == InitWith(MaxMsgs)

(***************************************************************************)
(* LudoistServer._runner and start                                         *)
(***************************************************************************)
\* client, addr = self._sock.accept(); Connection(client, addr, self):
\* Connection.__init__ sets the fields and starts the thread
Accept(c) ==
    /\ spc = "accept"
    /\ peer[c] = "none"
    /\ \A o \in Addrs \ {c} : AddrOf(o) = AddrOf(c) => peer[o] \in {"none", "reset", "gone"}
    /\ spc' = "store"
    /\ pending' = {c}
    /\ peer' = [peer EXCEPT ![c] = "open"]
    /\ sock' = [sock EXCEPT ![c] = "open"]
    /\ running' = [running EXCEPT ![c] = TRUE]
    /\ violations' = [violations EXCEPT ![c] = 0]
    /\ last_violation_at' = [last_violation_at EXCEPT ![c] = 0]
    /\ ping_recv' = [ping_recv EXCEPT ![c] = FALSE]
    /\ hpc' = [hpc EXCEPT ![c] = "setup"]
    /\ UNCHANGED <<regvars, now, connections, games, kpc, wait_start, packet, ret, inbox,
                   sent, budget, hist>>

\* self._connections[addr] = <the new Connection>
Store ==
    /\ spc = "store"
    /\ \E c \in pending : connections' = SetItem(connections, c)
    /\ pending' = {}
    /\ spc' = "accept"
    /\ UNCHANGED <<regvars, now, games, hpc, kpc, running, sock, violations, last_violation_at,
                   ping_recv, wait_start, packet, ret, peer, inbox, sent, budget, hist>>

\* KeyboardInterrupt in _runner: start() enters its except clause
Interrupt ==
    /\ spc \in {"accept", "store"}
    /\ spc' = "shutdown"
    /\ pending' = {}
    /\ UNCHANGED <<regvars, now, connections, games, hpc, kpc, running, sock, violations,
                   last_violation_at, ping_recv, wait_start, packet, ret, peer, inbox,
                   sent, budget, hist>>

\* for connection in self._connections.values(): connection._close()
\* _close pops the connection from the dict being iterated, so the iterator's
\* next step raises RuntimeError (dictionary changed size during iteration)
ShutdownClose ==
    /\ spc = "shutdown"
    /\ connections # <<>>
    /\ Close(Head(connections))
    /\ hist' = [hist EXCEPT ![Head(connections)].closes = @ + 1]
    /\ spc' = "crashed"
    /\ UNCHANGED <<regvars, now, pending, games, hpc, kpc, violations, last_violation_at,
                   ping_recv, wait_start, packet, ret, peer, inbox, sent, budget>>

\* no connection in the table: self._sock.detach(); self._sock.close().  The socket
\* object is closed; the descriptor detach() returned is dropped without being closed
ShutdownSocket ==
    /\ spc = "shutdown"
    /\ connections = <<>>
    /\ spc' = "closed"
    /\ UNCHANGED <<regvars, now, pending, connections, games, hpc, kpc, running, sock,
                   violations, last_violation_at, ping_recv, wait_start, packet, ret,
                   peer, inbox, sent, budget, hist>>

(***************************************************************************)
(* Connection._handler, _setup, _listen                                    *)
(***************************************************************************)
\* _setup: self._ping_recv.clear(); start the keep-alive thread
H_Setup(c) ==
    /\ hpc[c] = "setup"
    /\ ping_recv' = [ping_recv EXCEPT ![c] = FALSE]
    /\ kpc' = [kpc EXCEPT ![c] = "loop"]
    /\ hpc' = [hpc EXCEPT ![c] = "hello"]
    /\ UNCHANGED <<regvars, now, spc, pending, connections, games, running, sock, violations,
                   last_violation_at, wait_start, packet, ret, peer, inbox, sent,
                   budget, hist>>

\* a faulty variant: the message loop is entered without HELLO being written
H_HelloSkipped(c) ==
    /\ hpc[c] = "hello"
    /\ hpc' = [hpc EXCEPT ![c] = "loop"]
    /\ UNCHANGED <<regvars, now, spc, pending, connections, games, kpc, running, sock,
                   violations, last_violation_at, ping_recv, wait_start, packet, ret,
                   inbox, budget, peer, sent, hist>>

\* self._send_data(responses.make_hello_message(self._ping_interval - 10))
H_Hello(c) ==
    /\ hpc[c] = "hello"
    /\ IF CanSend(c)
       THEN /\ SendOK(c, make_hello_message(HelloInterval))
            /\ hpc' = [hpc EXCEPT ![c] = "loop"]
            /\ hist' = [hist EXCEPT ![c].hello_at = now,
                                    ![c].ping_due = now + HelloInterval]
       ELSE /\ SendFails(c)
            /\ hpc' = [hpc EXCEPT ![c] = "crashed"]
            /\ UNCHANGED hist
    /\ UNCHANGED <<regvars, now, spc, pending, connections, games, kpc, running, sock,
                   violations, last_violation_at, ping_recv, wait_start, packet, ret,
                   inbox, budget>>

\* the message loop is in self._sock.recv(3000): about to call it or blocked in
\* it ("recv"), or blocked in it on a socket that _close has closed since
\* ("blocked": the call goes on until data comes or the peer goes away)
InRecv(c) == hpc[c] \in {"recv", "blocked"}

\* while self._running: self._listen()
H_Loop(c) ==
    /\ hpc[c] = "loop"
    /\ hpc' = [hpc EXCEPT ![c] = IF running[c] THEN "recv" ELSE "done"]
    /\ UNCHANGED <<regvars, now, spc, pending, connections, games, kpc, running, sock,
                   violations, last_violation_at, ping_recv, wait_start, packet, ret,
                   peer, inbox, sent, budget, hist>>

\* packet = self._sock.recv(3000) returns what the client sent; once the peer
\* is gone and nothing is left to read it returns b""
H_Recv(c) ==
    /\ InRecv(c)
    /\ \/ /\ inbox[c] # <<>>
          /\ packet' = [packet EXCEPT ![c] = Head(inbox[c])]
          /\ inbox' = [inbox EXCEPT ![c] = Tail(@)]
       \/ /\ inbox[c] = <<>>
          /\ peer[c] = "gone"
          /\ packet' = [packet EXCEPT ![c] = PktEmpty]
          /\ UNCHANGED inbox
    /\ hpc' = [hpc EXCEPT ![c] = "handle"]
    /\ UNCHANGED <<regvars, now, spc, pending, connections, games, kpc, running, sock,
                   violations, last_violation_at, ping_recv, wait_start, ret, peer,
                   sent, budget, hist>>

\* a faulty variant: the message loop returns without closing
H_RecvResetKeeps(c) ==
    /\ InRecv(c)
    /\ peer[c] = "reset"
    /\ peer' = [peer EXCEPT ![c] = "gone"]
    /\ hpc' = [hpc EXCEPT ![c] = "loop"]
    /\ UNCHANGED <<regvars, now, spc, pending, games, kpc, violations, last_violation_at,
                   ping_recv, wait_start, packet, ret, inbox, sent, budget, hist,
                   running, sock, connections>>

\* recv raises ConnectionResetError: if self._running: self._close(); return
H_RecvReset(c) ==
    /\ InRecv(c)
    /\ peer[c] = "reset"
    /\ peer' = [peer EXCEPT ![c] = "gone"]
    /\ IF running[c] THEN Close(c) ELSE UNCHANGED <<running, sock, connections>>
    /\ hist' = [hist EXCEPT ![c].closes = IF running[c] THEN @ + 1 ELSE @]
    /\ hpc' = [hpc EXCEPT ![c] = "loop"]
    /\ UNCHANGED <<regvars, now, spc, pending, games, kpc, violations, last_violation_at,
                   ping_recv, wait_start, packet, ret, inbox, sent, budget>>

\* recv on a socket another thread has closed: OSError (bad file descriptor)
\* when it is called after the close, which _listen does not catch, or
\* ConnectionAbortedError, which it catches (_running is False by then); a recv
\* that was blocked when the socket was closed stays blocked
H_RecvClosed(c) ==
    /\ hpc[c] = "recv"
    /\ sock[c] = "closed"
    /\ \E h \in {"crashed", "loop", "blocked"} : hpc' = [hpc EXCEPT ![c] = h]
    /\ UNCHANGED <<regvars, now, spc, pending, connections, games, kpc, running, sock,
                   violations, last_violation_at, ping_recv, wait_start, packet, ret,
                   peer, inbox, sent, budget, hist>>

\* the names server/responses.py defines; any other attribute of the module
\* raises AttributeError where it is evaluated
ResponsesNames ==
    {"OP_CODE_ERROR", "OP_CODE_HELLO", "OP_CODE_PONG", "OP_CODE_LIST_GAMES",
     "OP_CODE_PING", "OP_CODE_REQUEST_GAMES", "ERR_UNKNOWN_ERROR", "ERR_PING_TIMEOUT",
     "ERR_UNPARSABLE_DATA", "ERR_INVALID_DATA_FORMAT", "ERR_GAMES_LISTING_FAILED",
     "_make_message", "make_hello_message", "make_error_message", "make_pong_message"}

ResponsesHas(name) == name \in ResponsesNames

\* what handling the packet did, for the history
Handled(c, outcome, replies) ==
    [pkt |-> packet[c], outcome |-> outcome, replies |-> replies,
     viol_before |-> violations[c], viol_after |-> violations'[c],
     ping_before |-> ping_recv[c], ping_after |-> ping_recv'[c],
     running_before |-> running[c], running_after |-> running'[c],
     table_before |-> InTable(c), table_after |-> InTable(c)']

\* _process_packet fails: it sends its ERROR, counts a violation and returns
\* -1, None; _listen returns on op == -1
H_ProcessError(c) ==
    /\ hpc[c] = "handle"
    /\ ~ProcessPacket(packet[c]).ok
    /\ UNCHANGED <<regvars, ping_recv, games>>
    /\ IF CanSend(c)
       THEN /\ SendOK(c, ProcessPacket(packet[c]).reply)
            /\ inc_violation(c)
            /\ ret' = [ret EXCEPT ![c] = <<ProcessPacket(packet[c]).op,
                                          ProcessPacket(packet[c]).d>>]
            /\ hpc' = [hpc EXCEPT ![c] = "loop"]
            /\ hist' = [hist EXCEPT ![c] =
                 [HistViolation(@) EXCEPT
                    !.handled = @ + 1,
                    !.last = Handled(c, "error", <<ProcessPacket(packet[c]).reply>>),
                    !.closes = IF IncViolationCloses(c) THEN @ + 1 ELSE @]]
       ELSE /\ SendFails(c)
            /\ UNCHANGED <<violations, last_violation_at, running, sock, connections, ret>>
            /\ hpc' = [hpc EXCEPT ![c] = "crashed"]
            /\ hist' = [hist EXCEPT ![c].handled = @ + 1,
                                    ![c].last = Handled(c, "OSError", <<>>)]
    /\ UNCHANGED <<now, spc, pending, kpc, wait_start, packet, inbox, budget>>

\* the op code _process_packet returned for the packet in hand
Op(c) == ProcessPacket(packet[c]).op

Parsed(c) == hpc[c] = "handle" /\ ProcessPacket(packet[c]).ok

\* what every dispatch of a parsed packet leaves alone
DispatchFrame(c) ==
    /\ ret' = [ret EXCEPT ![c] = <<Op(c), ProcessPacket(packet[c]).d>>]
    /\ UNCHANGED <<regvars, now, spc, pending, connections, games, kpc, running, sock,
                   violations, last_violation_at, wait_start, packet, peer, inbox,
                   sent, budget>>

\* if op == -1: return
H_MinusOne(c) ==
    /\ Parsed(c)
    /\ PyEq(Op(c), OP_FAILED)
    /\ hpc' = [hpc EXCEPT ![c] = "loop"]
    /\ UNCHANGED ping_recv
    /\ DispatchFrame(c)
    /\ hist' = [hist EXCEPT ![c].handled = @ + 1,
                            ![c].last = Handled(c, "dropped", <<>>)]

\* if op == responses.OP_CODE_PING: return self._ping_recv.set()
H_Ping(c) ==
    /\ Parsed(c)
    /\ ~PyEq(Op(c), OP_FAILED)
    /\ PyEq(Op(c), OP_CODE_PING)
    /\ ping_recv' = [ping_recv EXCEPT ![c] = TRUE]
    /\ hpc' = [hpc EXCEPT ![c] = "loop"]
    /\ DispatchFrame(c)
    /\ hist' = [hist EXCEPT ![c].handled = @ + 1,
                            ![c].last = Handled(c, "ping", <<>>),
                            ![c].pings = @ + 1,
                            ![c].owed = TRUE]

\* if op == responses.OP_CODE_REQUEST_GAMES: games = self._server.list_games();
\* responses.make_list_games_message is not defined: AttributeError ends the thread
H_RequestGames(c) ==
    /\ Parsed(c)
    /\ ~PyEq(Op(c), OP_FAILED)
    /\ ~PyEq(Op(c), OP_CODE_PING)
    /\ PyEq(Op(c), OP_CODE_REQUEST_GAMES)
    /\ ~ResponsesHas("make_list_games_message")
    /\ hpc' = [hpc EXCEPT ![c] = "crashed"]
    /\ UNCHANGED ping_recv
    /\ DispatchFrame(c)
    /\ hist' = [hist EXCEPT ![c].handled = @ + 1,
                            ![c].last = Handled(c, "AttributeError", <<>>)]

\* any other op: if op == responses.OP_CODE_CREATE_GAME is evaluated first, and
\* responses.OP_CODE_CREATE_GAME is not defined: AttributeError ends the thread
\* before the "invalid OP code" reply is reached
H_OtherOp(c) ==
    /\ Parsed(c)
    /\ ~PyEq(Op(c), OP_FAILED)
    /\ ~PyEq(Op(c), OP_CODE_PING)
    /\ ~PyEq(Op(c), OP_CODE_REQUEST_GAMES)
    /\ ~ResponsesHas("OP_CODE_CREATE_GAME")
    /\ hpc' = [hpc EXCEPT ![c] = "crashed"]
    /\ UNCHANGED ping_recv
    /\ DispatchFrame(c)
    /\ hist' = [hist EXCEPT ![c].handled = @ + 1,
                            ![c].last = Handled(c, "AttributeError", <<>>)]

(***************************************************************************)
(* Connection._keep_alive                                                  *)
(***************************************************************************)
KFrame ==
    UNCHANGED <<regvars, now, spc, pending, games, hpc, violations, last_violation_at,
                packet, ret, inbox, budget>>

\* while self._running: received = self._ping_recv.wait(timeout=self._ping_interval)
K_Loop(c) ==
    /\ kpc[c] = "loop"
    /\ kpc' = [kpc EXCEPT ![c] = IF running[c] THEN "wait" ELSE "done"]
    /\ wait_start' = [wait_start EXCEPT ![c] = IF running[c] THEN now ELSE @]
    /\ KFrame
    /\ UNCHANGED <<connections, running, sock, ping_recv, peer, sent, hist>>

\* when the monitor's wait expires
Deadline(c) == wait_start[c] + PING_INTERVAL

\* wait returns True: the first test is skipped; if self._running: send PONG
K_Received(c) ==
    /\ kpc[c] = "wait"
    /\ ping_recv[c]
    /\ kpc' = [kpc EXCEPT ![c] = IF running[c] THEN "pong" ELSE "loop"]
    /\ KFrame
    /\ UNCHANGED <<connections, running, sock, ping_recv, wait_start, peer, sent, hist>>

\* wait returns False after ping_interval seconds: if not received and
\* self._running: go on to send the ERROR; otherwise back to the loop test
K_Expired(c) ==
    /\ kpc[c] = "wait"
    /\ ~ping_recv[c]
    /\ now >= Deadline(c)
    /\ kpc' = [kpc EXCEPT ![c] = IF running[c] THEN "timeout" ELSE "loop"]
    /\ hist' = [hist EXCEPT ![c].timed_out = @ \/ running[c],
                            ![c].silent_since = IF running[c] THEN wait_start[c] ELSE @]
    /\ KFrame
    /\ UNCHANGED <<connections, running, sock, ping_recv, wait_start, peer, sent>>

\* self._send_data(make_error_message(ERR_PING_TIMEOUT, ...)); return self._close()
K_Timeout(c) ==
    /\ kpc[c] = "timeout"
    /\ IF CanSend(c)
       THEN /\ SendOK(c, MsgPingTimeout)
            /\ Close(c)
            /\ kpc' = [kpc EXCEPT ![c] = "done"]
            /\ hist' = [hist EXCEPT ![c].ka_closed = TRUE, ![c].closes = @ + 1]
       ELSE /\ SendFails(c)
            /\ kpc' = [kpc EXCEPT ![c] = "crashed"]
            /\ UNCHANGED <<connections, running, sock, hist>>
    /\ KFrame
    /\ UNCHANGED <<ping_recv, wait_start>>

\* self._send_data(responses.make_pong_message())
K_Pong(c) ==
    /\ kpc[c] = "pong"
    /\ IF CanSend(c)
       THEN /\ SendOK(c, make_pong_message)
            /\ kpc' = [kpc EXCEPT ![c] = "clear"]
            /\ hist' = [hist EXCEPT ![c].owed = FALSE]
       ELSE /\ SendFails(c)
            /\ kpc' = [kpc EXCEPT ![c] = "crashed"]
            /\ UNCHANGED hist
    /\ KFrame
    /\ UNCHANGED <<connections, running, sock, ping_recv, wait_start>>

\* a faulty variant: the signal is left set
K_ClearSkipped(c) ==
    /\ kpc[c] = "clear"
    /\ kpc' = [kpc EXCEPT ![c] = "loop"]
    /\ KFrame
    /\ UNCHANGED <<connections, running, sock, ping_recv, wait_start, peer, sent, hist>>

\* self._ping_recv.clear()
K_Clear(c) ==
    /\ kpc[c] = "clear"
    /\ ping_recv' = [ping_recv EXCEPT ![c] = FALSE]
    /\ kpc' = [kpc EXCEPT ![c] = "loop"]
    /\ KFrame
    /\ UNCHANGED <<connections, running, sock, wait_start, peer, sent, hist>>

(***************************************************************************)
(* The clients and the clock                                               *)
(***************************************************************************)
ThreadEnded(pc) == pc \in {"init", "done", "crashed"}

\* the client writes packet p to its socket; what is written after the message
\* loop has ended is never read
ClientSend(c, p) ==
    /\ peer[c] = "open"
    /\ budget > 0
    /\ budget' = budget - 1
    /\ IF ThreadEnded(hpc[c])
       THEN UNCHANGED inbox
       ELSE /\ Len(inbox[c]) < MaxInFlight
            /\ inbox' = [inbox EXCEPT ![c] = Append(@, p)]
    /\ hist' = [hist EXCEPT ![c].ping_due =
                   IF p = PktPing /\ hist[c].hello_at # 0 THEN now + HelloInterval ELSE @]
    /\ UNCHANGED <<regvars, now, spc, pending, connections, games, hpc, kpc, running, sock,
                   violations, last_violation_at, ping_recv, wait_start, packet, ret,
                   peer, sent>>

\* the client resets the connection (RST)
PeerReset(c) ==
    /\ peer[c] = "open"
    /\ peer' = [peer EXCEPT ![c] = "reset"]
    /\ UNCHANGED <<regvars, now, spc, pending, connections, games, hpc, kpc, running, sock,
                   violations, last_violation_at, ping_recv, wait_start, packet, ret,
                   inbox, sent, budget, hist>>

\* the message loop is blocked in recv with nothing to deliver, or has ended
HandlerBlocked(c) ==
    \/ ThreadEnded(hpc[c])
    \/ InRecv(c) /\ inbox[c] = <<>> /\ peer[c] \notin {"reset", "gone"}

\* the monitor is blocked in Event.wait for at least d more seconds, or has ended
MonitorBlocked(c, d) ==
    \/ ThreadEnded(kpc[c])
    \/ kpc[c] = "wait" /\ ~ping_recv[c] /\ now + d <= Deadline(c)

\* d seconds pass while every thread is blocked
Tick(d) ==
    /\ now - StartTime < MaxTicks * d
    /\ spc \in {"accept", "closed", "crashed"}
    /\ \A c \in Addrs : HandlerBlocked(c) /\ MonitorBlocked(c, d)
    /\ now' = now + d
    /\ hist' = [c \in Addrs |->
                  [hist[c] EXCEPT !.compliant =
                       @ /\ ~(peer[c] = "open" /\ hist[c].ping_due # 0
                                /\ now + d > hist[c].ping_due)]]
    /\ UNCHANGED <<regvars, spc, pending, connections, games, hpc, kpc, running, sock,
                   violations, last_violation_at, ping_recv, wait_start, packet, ret,
                   peer, inbox, sent, budget>>

(***************************************************************************)
(* The program: any number of clients, any packets                         *)
(***************************************************************************)
Handler(c) ==
    \/ H_Setup(c)
    \/ H_Hello(c)
    \/ H_Loop(c)
    \/ H_Recv(c)
    \/ H_RecvReset(c)
    \/ H_RecvClosed(c)
    \/ H_ProcessError(c)
    \/ H_MinusOne(c)
    \/ H_Ping(c)
    \/ H_RequestGames(c)
    \/ H_OtherOp(c)

Monitor(c) ==
    \/ K_Loop(c)
    \/ K_Received(c)
    \/ K_Expired(c)
    \/ K_Timeout(c)
    \/ K_Pong(c)
    \/ K_Clear(c)

Server ==
    \/ \E c \in Clients : Accept(c)
    \/ Store
    \/ Interrupt
    \/ ShutdownClose
    \/ ShutdownSocket

\* one step of the program with clients that send packets of ps
Step(ps) ==
    \/ Server
    \/ \E c \in Clients : Handler(c) \/ Monitor(c) \/ PeerReset(c)
    \/ \E c \in Clients : \E p \in ps : ClientSend(c, p)
    \/ \E d \in TickSteps : Tick(d)

Next == Step(SpecPackets)

Spec == Init /\ [][Next]_vars

(***************************************************************************)
(* SpecDecode: one client that sends one packet, of any kind               *)
(***************************************************************************)
DecodeMsgs == 1

SpecDecode == InitWith(DecodeMsgs) /\ [][Step(Packets)]_vars

(***************************************************************************)
(* SpecFlood: one client that stays connected and sends nothing but bytes  *)
(* that do not parse, as many as it takes to pass the threshold; the       *)
(* actions left out are never enabled with such a client                   *)
(***************************************************************************)
NextFlood ==
    \/ \E c \in Clients : Accept(c)
    \/ Store
    \/ \E c \in Clients :
          \/ H_Setup(c)
          \/ H_Hello(c)
          \/ H_Loop(c)
          \/ H_Recv(c)
          \/ H_RecvClosed(c)
          \/ H_ProcessError(c)
          \/ K_Loop(c)
          \/ K_Expired(c)
          \/ K_Timeout(c)
    \/ \E c \in Clients : \E p \in Unparsable : ClientSend(c, p)
    \/ \E d \in TickSteps : Tick(d)

SpecFlood == InitWith(MAX_VIOLATIONS + 1) /\ [][NextFlood]_vars

(***************************************************************************)
(* SpecPair: several clients connect, one of them from an address that was *)
(* used before, and the accept loop is never interrupted                   *)
(***************************************************************************)
\* packets the clients of SpecPair send in all
PairMsgs == 1

PairClients == {1, 3}

\* an event on connection c: a step of its threads, a packet or a reset from its peer
ConnectionEvent(c) ==
    \/ Handler(c)
    \/ Monitor(c)
    \/ PeerReset(c)
    \/ \E p \in SpecPackets : ClientSend(c, p)

NextPair ==
    \/ \E c \in PairClients : Accept(c)
    \/ Store
    \/ \E c \in PairClients : ConnectionEvent(c)
    \/ \E d \in TickSteps : Tick(d)

SpecPair == InitWith(PairMsgs) /\ [][NextPair]_vars

(***************************************************************************)
(* The registry functions of LudoistServer, called in any order            *)
(***************************************************************************)
\* the most calls of add_game and remove_game in one behaviour
MaxCalls == 4

\* add_game(game): self._games[game.id] = game
add_game(g) ==
    /\ ncalls < MaxCalls
    /\ games' = DictSet(games, g)
    /\ call' = [fn |-> "add_game", arg |-> g, res |-> None, before |-> games]
    /\ stamp' = [stamp EXCEPT ![g.id] = IF @ = 0 THEN ncalls + 1 ELSE @]
    /\ ncalls' = ncalls + 1
    /\ UNCHANGED connvars

\* remove_game(game_id): return self._games.pop(game_id, None)
remove_game(id) ==
    /\ ncalls < MaxCalls
    /\ games' = DictPop(games, id)
    /\ call' = [fn |-> "remove_game", arg |-> id, res |-> DictGet(games, id),
                before |-> games]
    /\ stamp' = [stamp EXCEPT ![id] = 0]
    /\ ncalls' = ncalls + 1
    /\ UNCHANGED connvars

\* get_game(game_id): return self._games.get(game_id)
get_game(id) ==
    /\ call' = [fn |-> "get_game", arg |-> id, res |-> DictGet(games, id),
                before |-> games]
    /\ UNCHANGED <<connvars, games, stamp, ncalls>>

\* list_games(): return list(self._games.values())
ListGames ==
    /\ call' = [fn |-> "list_games", arg |-> None, res |-> list_games,
                before |-> games]
    /\ UNCHANGED <<connvars, games, stamp, ncalls>>

NextRegistry ==
    \/ \E g \in RegistryGames : add_game(g)
    \/ \E id \in GameIds : remove_game(id)
    \/ \E id \in GameIds : get_game(id)
    \/ ListGames

SpecRegistry == InitWith(0) /\ [][NextRegistry]_vars

(***************************************************************************)
(* The functions of a Game, applied to any game value                      *)
(***************************************************************************)
\* game.is_joinable(), on a game value taken once
IsJoinable(g) ==
    /\ call = NoCall
    /\ call' = [fn |-> "is_joinable", arg |-> g, res |-> is_joinable(g),
                before |-> games]
    /\ UNCHANGED <<connvars, games, stamp, ncalls>>

\* game.get_overview(), on a game value taken once
GetOverview(g) ==
    /\ call = NoCall
    /\ call' = [fn |-> "get_overview", arg |-> g, res |-> get_overview(g),
                before |-> games]
    /\ UNCHANGED <<connvars, games, stamp, ncalls>>

NextGame ==
    \/ \E g \in GameInputs : IsJoinable(g)
    \/ \E g \in GameInputs : GetOverview(g)

SpecGame == InitWith(0) /\ [][NextGame]_vars

(***************************************************************************)
(* Properties                                                              *)
(***************************************************************************)
\* the HELLO messages written to c so far
Hellos(c) == SelectSeq(sent[c], LAMBDA m : m.op = OP_CODE_HELLO)

\* the message loop of c has handled a packet since it was last idle
HandledOne(c) == hist[c].last.outcome # "none"

\* the packet handled last got its reply written (the send did not raise)
Answered(c) == HandledOne(c) /\ hist[c].last.outcome # "OSError"

\* C1: a connection writes at most one HELLO, every HELLO is
\* {"op": 1, "d": {"ping_interval": 30}}, and once the message loop is
\* receiving or has handled any packet exactly one HELLO has been written and
\* it is the first message on the socket.
C1_HelloOnceBeforeMessages ==
    \A c \in Addrs :
       /\ Len(Hellos(c)) <= 1
       /\ \A i \in 1..Len(Hellos(c)) :
             Hellos(c)[i] = [op |-> 1, d |-> [ping_interval |-> 30]]
       /\ (hpc[c] \in {"loop", "recv", "handle", "done"} \/ hist[c].handled > 0)
             => /\ Len(Hellos(c)) = 1
                /\ sent[c][1].op = OP_CODE_HELLO

\* C1 witness: a connection has handled a packet and replied, after its one HELLO
C1_Witness ==
    \E c \in Addrs :
       /\ hist[c].handled > 0
       /\ Len(sent[c]) >= 2
       /\ Len(Hellos(c)) = 1

\* C2: once 9 violations in a row have been handled, each under 300 s after
\* the one before, the connection is closed.
C2_FloodCloses ==
    \A c \in Addrs :
       hist[c].streak >= MAX_VIOLATIONS + 1
          => ~running[c] /\ sock[c] = "closed"

\* C3: a violation that has a previous one resets the counter to zero exactly
\* when more than 300 s passed since the previous one, and otherwise leaves it
\* greater than it was.
C3_ResetIffWindowPassed ==
    \A c \in Addrs :
       (hist[c].last.outcome = "error" /\ hist[c].gap >= 0)
          => /\ (hist[c].last.viol_after = 0) <=> (hist[c].gap > VIOLATION_WINDOW)
             /\ hist[c].gap <= VIOLATION_WINDOW
                   => hist[c].last.viol_after > hist[c].last.viol_before

\* C4: once a wait of the monitor has expired with no PING on a running
\* connection and the monitor has acted on it, the connection has been sent
\* one "no PING received" ERROR and is closed: not running, socket closed,
\* not in the connection table.
C4_SilenceIsClosed ==
    \A c \in Addrs :
       (hist[c].timed_out /\ kpc[c] # "timeout")
          => /\ Len(SelectSeq(sent[c], LAMBDA m : m = MsgPingTimeout)) = 1
             /\ ~running[c]
             /\ sock[c] = "closed"
             /\ ~InTable(c)

\* C5: a connected client that has sent every PING when due (the first within
\* 30 s of HELLO, each next within 30 s of the one before) has not been sent
\* the ping-timeout ERROR and has not been closed by the monitor.
C5_PingingClientKept ==
    \A c \in Addrs :
       (hist[c].hello_at # 0 /\ hist[c].compliant /\ peer[c] = "open")
          => /\ ~hist[c].timed_out
             /\ ~hist[c].ka_closed
             /\ \A i \in 1..Len(sent[c]) : sent[c][i] # MsgPingTimeout

\* the bytes of p are a JSON text
ValidJSON(p) == p.utf8 /\ p.rfc

\* C6: a packet that is no valid JSON yields -1, None and the reply
\* "data could not be parsed as JSON".
C6_NotJSONIsUnparsable ==
    \A c \in Addrs :
       (Answered(c) /\ ~ValidJSON(hist[c].last.pkt))
          => /\ hist[c].last.outcome = "error"
             /\ hist[c].last.replies = <<MsgUnparsable>>
             /\ ret[c] = <<VInt(OP_FAILED), VNull>>

\* C7: handling one packet that does not parse writes exactly one ERROR,
\* raises the violation counter by one, leaves the liveness signal and the
\* registry alone, and leaves the connection running and in the table.
C7_MalformedNotFatal ==
    \A c \in Addrs :
       (Answered(c) /\ hist[c].last.pkt \in Unparsable)
          => /\ Len(hist[c].last.replies) = 1
             /\ hist[c].last.replies[1].op = OP_CODE_ERROR
             /\ hist[c].last.viol_after = hist[c].last.viol_before + 1
             /\ hist[c].last.ping_after = hist[c].last.ping_before
             /\ games = <<>>
             /\ hist[c].last.running_before => hist[c].last.running_after
             /\ hist[c].last.table_before => hist[c].last.table_after

\* the JSON value of p is an object with an integer "op"
HasIntOp(p) == p.val.t = "dict" /\ p.val.op.t = "int"

\* an ERROR made with the invalid-format code
InvalidFormatErrors == {MsgMissingOp, MsgInvalidOp}

\* C8: a JSON packet without an integer "op" is answered with an
\* invalid-format ERROR, counted as one violation and not dispatched.
C8_NoIntegerOpIsRejected ==
    \A c \in Addrs :
       (HandledOne(c) /\ ValidJSON(hist[c].last.pkt) /\ ~HasIntOp(hist[c].last.pkt)
          /\ hist[c].last.outcome # "OSError")
          => /\ hist[c].last.outcome = "error"
             /\ Len(hist[c].last.replies) = 1
             /\ hist[c].last.replies[1] \in InvalidFormatErrors
             /\ hist[c].last.viol_after = hist[c].last.viol_before + 1
             /\ hist[c].last.ping_after = hist[c].last.ping_before

\* C9: a packet whose op is an integer other than PING and REQUEST_GAMES is
\* answered with exactly one "invalid OP code" ERROR and raises the violation
\* counter by one.
C9_UnknownOpIsRejected ==
    \A c \in Addrs :
       (HandledOne(c) /\ ValidJSON(hist[c].last.pkt) /\ HasIntOp(hist[c].last.pkt)
          /\ hist[c].last.pkt.val.op.n \notin {OP_CODE_PING, OP_CODE_REQUEST_GAMES}
          /\ hist[c].last.outcome # "OSError")
          => /\ hist[c].last.replies = <<MsgInvalidOp>>
             /\ hist[c].last.viol_after = hist[c].last.viol_before + 1

\* C10: a REQUEST_GAMES packet is answered with exactly one LIST_GAMES message
\* carrying the overview of every game of the registry, in registry order,
\* and the violation counter is left alone.
C10_RequestGamesIsAnswered ==
    \A c \in Addrs :
       (HandledOne(c) /\ hist[c].last.pkt = PktRequestGames
          /\ hist[c].last.outcome # "OSError")
          => /\ hist[c].last.replies =
                   <<make_message(OP_CODE_LIST_GAMES,
                        [i \in 1..Len(list_games) |-> get_overview(list_games[i])])>>
             /\ hist[c].last.viol_after = hist[c].last.viol_before

\* C11: a CREATE_GAME message whose payload fails the validation of Game leaves
\* the registry as it was and is answered with exactly one ERROR message that
\* carries the validation errors.
C11_InvalidCreateIsRefused ==
    \A c \in Addrs :
       (HandledOne(c) /\ hist[c].last.pkt \in InvalidCreate
          /\ hist[c].last.outcome # "OSError")
          => /\ games = <<>>
             /\ Len(hist[c].last.replies) = 1
             /\ hist[c].last.replies[1].op = OP_CODE_ERROR
             /\ "errors" \in DOMAIN hist[c].last.replies[1].d

\* C12: a CREATE_GAME message with a valid payload and no rules puts exactly one
\* game named "Room A" with allowed_players 2 into the registry, is answered with
\* exactly one message carrying that game, and get_game of its id returns it.
C12_ValidCreateAddsGame ==
    \A c \in Addrs :
       (HandledOne(c) /\ hist[c].last.pkt \in ValidCreate
          /\ hist[c].last.outcome # "OSError")
          => /\ Len(games) = 1
             /\ games[1].name = "Room A"
             /\ games[1].rules.allowed_players = 2
             /\ Len(hist[c].last.replies) = 1
             /\ hist[c].last.replies[1].d = games[1]
             /\ DictGet(games, games[1].id) = games[1]

\* C13: is_joinable() is true exactly when the game has fewer players than
\* rules.allowed_players and its state is waiting or ready; it is false for a
\* game with allowed_players players and for a game that is running or ended.
C13_JoinableIffRoomAndOpen ==
    call.fn = "is_joinable" =>
       LET g == call.arg
           n == Len(g.players)
       IN /\ call.res <=> (/\ n < g.rules.allowed_players
                           /\ g.state \in {GameState_waiting, GameState_ready})
          /\ n = g.rules.allowed_players => ~call.res
          /\ g.state \in {GameState_running, GameState_ended} => ~call.res

\* C13 witness: is_joinable() was false for a waiting game that is just full
C13_Witness ==
    /\ call.fn = "is_joinable"
    /\ call.arg.state = GameState_waiting
    /\ Len(call.arg.players) = call.arg.rules.allowed_players
    /\ ~call.res

\* g and h differ at most in the value of a password that both have, in the
\* board and in the tokens of their players
SameButSecrets(g, h) ==
    /\ g.id = h.id
    /\ g.name = h.name
    /\ g.state = h.state
    /\ g.rules = h.rules
    /\ (g.password = None) <=> (h.password = None)
    /\ Len(g.players) = Len(h.players)
    /\ \A i \in 1..Len(g.players) :
          [g.players[i] EXCEPT !.token = None] = [h.players[i] EXCEPT !.token = None]

C15_NoPayloadNoD ==
    \A c \in Addrs : \A i \in 1..Len(sent[c]) :
       /\ sent[c][i].op = OP_CODE_PONG => sent[c][i] = [op |-> OP_CODE_PONG]
       /\ sent[c][i].op = OP_CODE_HELLO =>
             sent[c][i] = [op |-> OP_CODE_HELLO, d |-> [ping_interval |-> HelloInterval]]

\* C16: after add_game(g) get_game(g.id) returns g and g.id is stored once;
\* adding g again leaves the registry as it is; adding a game whose id was
\* present leaves the number of games unchanged, and a new id adds one.
C16_AddGameIsUpsert ==
    call.fn = "add_game" =>
       LET g == call.arg
       IN /\ DictGet(games, g.id) = g
          /\ Cardinality({i \in 1..Len(games) : games[i].id = g.id}) = 1
          /\ DictSet(games, g) = games
          /\ DictHas(call.before, g.id) => Len(games) = Len(call.before)
          /\ ~DictHas(call.before, g.id) => Len(games) = Len(call.before) + 1

\* C16 witness: add_game replaced a stored game by another game of the same id
C16_Witness ==
    /\ call.fn = "add_game"
    /\ DictHas(call.before, call.arg.id)
    /\ DictGet(call.before, call.arg.id) # call.arg
    /\ Len(games) = 2

\* C17: list_games returns every game of the registry exactly once, in the
\* order in which their ids entered the registry since they were last absent.
C17_ListInInsertionOrder ==
    call.fn = "list_games" =>
       LET l == call.res
       IN /\ \A id \in GameIds :
                Cardinality({i \in 1..Len(l) : l[i].id = id})
                   = IF stamp[id] > 0 THEN 1 ELSE 0
          /\ \A i, j \in 1..Len(l) : i < j => stamp[l[i].id] < stamp[l[j].id]

\* C17 witness: list_games returned two games, the second of them added again
\* after it had been removed
C17_Witness ==
    /\ call.fn = "list_games"
    /\ Len(call.res) = 2
    /\ stamp[call.res[2].id] > stamp[call.res[1].id] + 1

\* C18: remove_game of a present id returns the stored game, after it the id
\* is absent and every other id maps to the game it mapped to; remove_game of
\* an absent id returns None and leaves the registry as it was.
C18_RemoveGameFrame ==
    call.fn = "remove_game" =>
       LET id == call.arg
       IN /\ DictHas(call.before, id) =>
                /\ call.res.id = id
                /\ \E i \in 1..Len(call.before) : call.before[i] = call.res
          /\ DictGet(games, id) = NoGame
          /\ \A o \in GameIds \ {id} : DictGet(games, o) = DictGet(call.before, o)
          /\ ~DictHas(call.before, id) => (call.res = NoGame /\ games = call.before)

\* C18 witness: remove_game took one of two stored games out of the registry
C18_Witness ==
    /\ call.fn = "remove_game"
    /\ call.res # NoGame
    /\ Len(call.before) = 2
    /\ Len(games) = 1

\* C19: once the shutdown that follows an interrupt has ended, it has ended
\* without raising and with the listening socket closed, and every connection
\* that is still in the table is closed.
C19_ShutdownClosesAll ==
    spc \in {"closed", "crashed"} =>
       /\ spc = "closed"
       /\ \A c \in Addrs : InTable(c) => (~running[c] /\ sock[c] = "closed")

\* C20: an event on a connection leaves the running flag, the violation
\* counter, the liveness signal and the table entry of every other connection
\* as they were, and leaves the accept loop where it was.
C20_ConnectionsAreIndependent ==
    [][\A a \in Addrs : \A b \in Addrs \ {a} :
          ConnectionEvent(a) =>
             /\ running'[b] = running[b]
             /\ violations'[b] = violations[b]
             /\ ping_recv'[b] = ping_recv[b]
             /\ InTable(b)' = InTable(b)
             /\ spc' = spc]_vars

(***************************************************************************)
(* SpecOrder: one client that sends a valid CREATE_GAME and then a         *)
(* REQUEST_GAMES on the same connection; the actions left out are never    *)
(* enabled with such a client                                              *)
(***************************************************************************)
OrderMsgs == 2

NextOrder ==
    \/ \E c \in Clients : Accept(c)
    \/ Store
    \/ \E c \in Clients :
          \/ H_Setup(c)
          \/ H_Hello(c)
          \/ H_Loop(c)
          \/ H_Recv(c)
          \/ H_RecvClosed(c)
          \/ H_OtherOp(c)
          \/ K_Loop(c)
          \/ K_Expired(c)
          \/ K_Timeout(c)
    \/ \E c \in Clients : ClientSend(c, IF budget = OrderMsgs THEN PktCreateGame(22)
                                                 ELSE PktRequestGames)
    \/ \E d \in TickSteps : Tick(d)

SpecOrder == InitWith(OrderMsgs) /\ [][NextOrder]_vars

\* C21: when a client has written a valid CREATE_GAME and then a REQUEST_GAMES
\* to a connection that stays open and running, and the message loop has
\* nothing left to read, the connection has sent HELLO, then the game-created
\* reply carrying the new game, then a LIST_GAMES reply that lists that game.
C21_RepliesInArrivalOrder ==
    \A c \in Addrs :
       (running[c] /\ peer[c] = "open" /\ budget = 0 /\ inbox[c] = <<>>
          /\ hpc[c] \in {"recv", "crashed", "done"})
          => /\ Len(games) = 1
             /\ Len(sent[c]) = 3
             /\ sent[c][1] = make_hello_message(HelloInterval)
             /\ sent[c][2].d = games[1]
             /\ sent[c][3] = make_message(OP_CODE_LIST_GAMES,
                                          <<get_overview(games[1])>>)

\* C22: every game of the registry has at most rules.allowed_players players.
C22_PlayersWithinAllowed ==
    \A i \in 1..Len(games) :
       Len(games[i].players) <= games[i].rules.allowed_players

\* C23: a handled CREATE_GAME with a valid payload, with or without an "id",
\* leaves in the registry, which held no game before, exactly the new game,
\* stored under an id the server generated and not under the id of the payload.
C23_CreateStoresUnderFreshId ==
    \A c \in Addrs :
       (HandledOne(c) /\ hist[c].last.pkt \in ValidCreate \cup CreateWithId
          /\ hist[c].last.outcome # "OSError")
          => /\ Len(games) = 1
             /\ games[1].name = "Room A"
             /\ DictIndex(games, games[1].id) = 1
             /\ hist[c].last.pkt \in CreateWithId
                   => games[1].id # hist[c].last.pkt.val.d.id

(***************************************************************************)
(* SpecWindow: one client that stays connected for more than 300 s: every  *)
(* WindowStep seconds it writes one packet, a PING or bytes that do not    *)
(* parse; the actions left out are never enabled with such a client        *)
(***************************************************************************)
\* seconds between two writes of the client: half the ping interval
WindowStep == 20

\* the steps of the clock: WindowTicks * WindowStep > VIOLATION_WINDOW
WindowTicks == 16

\* the packets the client writes: one at the start and one after every step
WindowMsgs == WindowTicks + 1

\* the writes of the client so far
Written == WindowMsgs - budget

\* the steps of the clock so far
Elapsed == (now - StartTime) \div WindowStep

\* the client writes its next packet once the time for it has come, as long
\* as the server has not closed the connection
WindowSend(c, p) ==
    /\ Written = Elapsed
    /\ sock[c] = "open"
    /\ ClientSend(c, p)

\* WindowStep seconds pass while every thread is blocked and the client has
\* written the packet of this step
WindowTick ==
    /\ Elapsed < WindowTicks
    /\ Written = Elapsed + 1
    /\ spc = "accept"
    /\ \A c \in Addrs : HandlerBlocked(c) /\ MonitorBlocked(c, WindowStep)
    /\ now' = now + WindowStep
    /\ hist' = [c \in Addrs |->
                  [hist[c] EXCEPT !.compliant =
                       @ /\ ~(peer[c] = "open" /\ hist[c].ping_due # 0
                                /\ now + WindowStep > hist[c].ping_due)]]
    /\ UNCHANGED <<regvars, spc, pending, connections, games, hpc, kpc, running, sock,
                   violations, last_violation_at, ping_recv, wait_start, packet, ret,
                   peer, inbox, sent, budget>>

NextWindow ==
    \/ \E c \in Clients : Accept(c)
    \/ Store
    \/ \E c \in Clients :
          \/ H_Setup(c)
          \/ H_Hello(c)
          \/ H_Loop(c)
          \/ H_Recv(c)
          \/ H_RecvClosed(c)
          \/ H_ProcessError(c)
          \/ H_Ping(c)
          \/ Monitor(c)
    \/ \E c \in Clients : \E p \in {PktPing, PktGarbage} : WindowSend(c, p)
    \/ WindowTick

SpecWindow == InitWith(WindowMsgs) /\ [][NextWindow]_vars

\* C24: a violation handled more than 300 s after the previous violation of
\* the connection leaves the violation counter at 1.
C24_LateViolationCountsOne ==
    \A c \in Addrs :
       (hist[c].last.outcome = "error" /\ hist[c].gap > VIOLATION_WINDOW)
          => hist[c].last.viol_after = 1

\* C25: counting a violation does not close the connection when it is at most
\* the 8th violation of the connection, nor when 300 s or more passed since the
\* violation before it; such a connection is closed, if at all, by the
\* keep-alive monitor.
C25_NoEarlyClose ==
    \A c \in Addrs :
       (hist[c].nviol >= 1
          /\ (hist[c].nviol <= MAX_VIOLATIONS \/ hist[c].gap >= VIOLATION_WINDOW))
          => /\ hist[c].last.outcome = "error"
                   => (hist[c].last.running_before => hist[c].last.running_after)
             /\ sock[c] = "closed" => hist[c].ka_closed

\* the 8th violation of a connection has been counted and the connection is
\* running, its socket open
C25_Witness ==
    \E c \in Addrs :
       /\ hist[c].nviol = MAX_VIOLATIONS
       /\ hist[c].last.outcome = "error"
       /\ hist[c].last.viol_after = IncViolationCount(c)
       /\ running[c]
       /\ sock[c] = "open"

\* the PONG messages written to c so far
Pongs(c) == SelectSeq(sent[c], LAMBDA m : m.op = OP_CODE_PONG)

\* C26: a connection has written at most as many PONGs as its message loop has
\* dispatched PINGs, and whenever the monitor is about to write a PONG a PING
\* has been dispatched since the PONG before (or since the connection started).
C26_PongOnlyAfterPing ==
    \A c \in Addrs :
       /\ Len(Pongs(c)) <= hist[c].pings
       /\ kpc[c] = "pong" => hist[c].owed
       /\ hist[c].pings = 0 => ~ping_recv[c]

\* two PINGs were dispatched before the monitor woke, and it has answered them
\* with a single PONG and waits again
C26_Witness ==
    \E c \in Addrs :
       /\ hist[c].pings = 2
       /\ Len(Pongs(c)) = 1
       /\ sent[c][Len(sent[c])] = make_pong_message
       /\ ~hist[c].owed
       /\ kpc[c] = "wait"
       /\ ~ping_recv[c]

(***************************************************************************)
(* SpecFair: the program under fair scheduling: a thread that can take a   *)
(* step takes one, the main thread included (a KeyboardInterrupt may or    *)
(* may not come), and time passes while every thread is blocked            *)
(***************************************************************************)
\* d seconds pass while every thread is blocked and a monitor is in its wait:
\* the clock is not stopped before that wait has expired
FairTick(d) ==
    /\ \E c \in Addrs : kpc[c] = "wait"
    /\ spc \in {"accept", "closed", "crashed"}
    /\ \A c \in Addrs : HandlerBlocked(c) /\ MonitorBlocked(c, d)
    /\ now' = now + d
    /\ hist' = [c \in Addrs |->
                  [hist[c] EXCEPT !.compliant =
                       @ /\ ~(peer[c] = "open" /\ hist[c].ping_due # 0
                                /\ now + d > hist[c].ping_due)]]
    /\ UNCHANGED <<regvars, spc, pending, connections, games, hpc, kpc, running, sock,
                   violations, last_violation_at, ping_recv, wait_start, packet, ret,
                   peer, inbox, sent, budget>>

NextFair ==
    \/ Server
    \/ \E c \in Clients : Handler(c) \/ Monitor(c) \/ PeerReset(c)
    \/ \E c \in Clients : \E p \in SpecPackets : ClientSend(c, p)
    \/ \E d \in TickSteps : FairTick(d)

Fairness ==
    /\ \A c \in Clients : WF_vars(Handler(c)) /\ WF_vars(Monitor(c))
    /\ WF_vars(Store \/ ShutdownClose \/ ShutdownSocket)
    /\ WF_vars(\E d \in TickSteps : FairTick(d))

SpecFair == Init /\ [][NextFair]_vars /\ Fairness

\* C27: after a PING is dispatched on a running connection whose monitor has not
\* timed out, a PONG is eventually written at or after it, unless the peer
\* resets the connection or the server shuts down.
C27_EveryPingAnswered ==
    \A c \in Clients :
       (hist[c].owed /\ running[c] /\ ~hist[c].timed_out)
          ~> (~hist[c].owed \/ peer[c] # "open" \/ spc \notin {"accept", "store"})

\* C28: whatever the monitor or the message loop writes to a connection, a
\* PONG or an ERROR, comes after the HELLO, which is the first message on the
\* socket; the monitor, started before HELLO is written, writes nothing while
\* the HELLO is still to come.
C28_HelloFirst ==
    \A c \in Addrs :
       /\ \A i \in 1..Len(sent[c]) :
             sent[c][i].op \in {OP_CODE_PONG, OP_CODE_ERROR}
                => i > 1 /\ sent[c][1] = make_hello_message(HelloInterval)
       /\ hpc[c] \in {"setup", "hello"} => sent[c] = <<>>

\* the monitor has written its ERROR right after the HELLO
C28_Witness ==
    \E c \in Addrs :
       /\ sent[c] = <<make_hello_message(HelloInterval), MsgPingTimeout>>
       /\ hist[c].ka_closed

\* C29: a connection that has been closed is not running, its socket is closed
\* and the connection table does not hold it, also when it was closed before
\* the accept loop stored it.
C29_ClosedIsOutOfTable ==
    \A c \in Addrs :
       sock[c] = "closed" => ~running[c] /\ ~InTable(c)

\* C30: once _close has run on a connection, its running flag is false and its
\* socket closed in every later state, and a further _close on it ends no
\* thread of the connection, leaves flag and socket as they are, leaves no entry
\* under the connection's address in the table, as the first close did, and
\* leaves the entries of every other address alone.
C30_ClosedIsTerminal ==
    /\ [](\A c \in Addrs : hist[c].closes >= 1 => ~running[c] /\ sock[c] = "closed")
    /\ [][\A c \in Addrs :
            (hist[c].closes >= 1 /\ hist'[c].closes > hist[c].closes)
               => /\ running'[c] = running[c]
                  /\ sock'[c] = sock[c]
                  /\ hpc'[c] = hpc[c]
                  /\ kpc'[c] = kpc[c]
                  /\ ~InTable(c)'
                  /\ \A o \in Addrs :
                        AddrOf(o) # AddrOf(c) => (InTable(o)' <=> InTable(o))]_vars

\* _close has run twice on a connection
C30_Witness ==
    \E c \in Addrs :
       /\ hist[c].closes = 2
       /\ ~running[c]
       /\ sock[c] = "closed"
       /\ ~InTable(c)

C32_ResetClosesQuietly ==
    [][\A c \in Addrs :
          (hpc[c] = "recv" /\ hpc'[c] = "loop" /\ peer[c] = "reset" /\ running[c])
             => /\ ~running'[c]
                /\ sock'[c] = "closed"
                /\ ~InTable(c)'
                /\ sent' = sent
                /\ violations' = violations
                /\ last_violation_at' = last_violation_at
                /\ hist'[c].nviol = hist[c].nviol
                /\ games' = games]_vars

\* the message loop has closed the connection on a peer reset: nobody else did,
\* and only HELLO was written
C32_Witness ==
    \E c \in Addrs :
       /\ peer[c] = "gone"
       /\ hist[c].closes = 1
       /\ ~hist[c].ka_closed
       /\ spc \in {"accept", "store"}
       /\ ~running[c] /\ sock[c] = "closed" /\ ~InTable(c)
       /\ sent[c] = <<make_hello_message(HelloInterval)>>

\* C33: under fair scheduling, a connection whose peer has gone away is
\* eventually not running and not in the connection table.
C33_GonePeerIsDestroyed ==
    \A c \in Clients :
       (peer[c] \in {"reset", "gone"}) ~> (~running[c] /\ ~InTable(c))

\* C34: under fair scheduling, once _close has run on a connection its message
\* loop and its monitor both end.
C34_ThreadsEndAfterClose ==
    \A c \in Clients :
       (hist[c].closes >= 1) ~> (hpc[c] \in {"done", "crashed"} /\ kpc[c] \in {"done", "crashed"})

(***************************************************************************)
(* SpecCreate: two clients that send valid CREATE_GAME and REQUEST_GAMES   *)
(* messages at the same time; the actions left out are never enabled with  *)
(* such clients                                                            *)
(***************************************************************************)
\* packets the clients of SpecCreate send in all
CreateMsgs == 2

CreateClients == {1, 2}

NextCreate ==
    \/ \E c \in CreateClients : Accept(c)
    \/ Store
    \/ \E c \in CreateClients :
          \/ H_Setup(c)
          \/ H_Hello(c)
          \/ H_Loop(c)
          \/ H_Recv(c)
          \/ H_RecvClosed(c)
          \/ H_RequestGames(c)
          \/ H_OtherOp(c)
          \/ K_Loop(c)
          \/ K_Expired(c)
          \/ K_Timeout(c)
    \/ \E c \in CreateClients : \E p \in {PktCreateGame(22), PktRequestGames} : ClientSend(c, p)
    \/ \E d \in TickSteps : Tick(d)

SpecCreate == InitWith(CreateMsgs) /\ [][NextCreate]_vars

\* C35: when the message loops of two connections have each handled a valid
\* CREATE_GAME, the registry holds the game created for each of them, each
\* under its own id.
C35_NoCreatedGameLost ==
    \A a, b \in Addrs :
       (a # b
          /\ hist[a].last.pkt \in ValidCreate /\ hist[a].last.outcome # "OSError"
          /\ hist[b].last.pkt \in ValidCreate /\ hist[b].last.outcome # "OSError")
          => /\ Len(games) = 2
             /\ games[1].id # games[2].id
             /\ \A c \in {a, b} :
                   /\ Len(hist[c].last.replies) = 1
                   /\ DictGet(games, hist[c].last.replies[1].d.id)
                         = hist[c].last.replies[1].d

\* C36: in every overview made by get_overview, password_protected is true
\* exactly when the game's password is not null, the id, name, state and rules
\* are those of the game, and the players are listed in the order of the game.
C36_OverviewKeepsGame ==
    call.fn = "get_overview" =>
       /\ call.res.password_protected = (call.arg.password # None)
       /\ call.res.id = call.arg.id
       /\ call.res.name = call.arg.name
       /\ call.res.state = call.arg.state
       /\ call.res.rules = call.arg.rules
       /\ Len(call.res.players) = Len(call.arg.players)
       /\ \A i \in 1..Len(call.arg.players) :
             call.res.players[i] = get_public_view(call.arg.players[i])

\* C36 witness: the overview of a game with a password and several players
C36_Witness ==
    /\ call.fn = "get_overview"
    /\ call.arg.password # None
    /\ call.res.password_protected = TRUE
    /\ Len(call.arg.players) >= 2
    /\ call.arg.players[1].id # call.arg.players[2].id
    /\ call.res.players[2].id = call.arg.players[2].id

\* C37: a CREATE_GAME message whose payload fails the validation is recoverable
\* and no violation: handling it leaves the connection running and in the
\* table, leaves the violation counter and the time of the last violation (0
\* since __init__) as they were, and the message loop goes on to the next
\* message.
C37_InvalidCreateIsRecoverable ==
    \A c \in Addrs :
       (HandledOne(c) /\ hist[c].last.pkt \in InvalidCreate
          /\ hist[c].last.outcome # "OSError")
          => /\ hist[c].last.running_before => hist[c].last.running_after
             /\ hist[c].last.table_before => hist[c].last.table_after
             /\ hist[c].last.viol_after = hist[c].last.viol_before
             /\ last_violation_at[c] = 0
             /\ hpc[c] # "crashed"

\* the packet handled last on c parsed to a value with an "op" that is not PING
WellFormedNotPing(c) ==
    /\ HandledOne(c)
    /\ ProcessPacket(hist[c].last.pkt).ok
    /\ ~PyEq(ProcessPacket(hist[c].last.pkt).op, OP_CODE_PING)

\* C38: no well-formed message is dropped: handling a message that parses and
\* has an "op" other than PING writes exactly one reply; stated for the case
\* the claim names, {"op": -1}: the reply is the "invalid OP code" ERROR and a
\* violation is counted.
C38_NoSilentDrop ==
    \A c \in Addrs :
       (/\ WellFormedNotPing(c)
        /\ hist[c].last.pkt = PktMinusOne
        /\ hist[c].last.outcome # "OSError")
          => /\ hist[c].last.replies = <<MsgInvalidOp>>
             /\ hist[c].nviol > 0

(***************************************************************************)
(* SpecClient: the client Connection (client/connection.py) with a server  *)
(* end that writes HELLO and answers every REQUEST_GAMES with one           *)
(* LIST_GAMES message; the thread of the window calls list_games and       *)
(* create_game (window.py lines 87-88, scenes.py line 558)                  *)
(***************************************************************************)
\* _handler: self._running = True; self._sock.connect((HOST, PORT))
L_Connect ==
    /\ lpc.pc = "init"
    /\ client' = [client EXCEPT !.running = TRUE]
    /\ lpc' = [lpc EXCEPT !.pc = "recv"]
    /\ UNCHANGED <<servervars, futures, fut, cpc, wire, out, chist>>

\* the server end writes HELLO once the client is connected
S_Hello ==
    /\ lpc.pc # "init"
    /\ ~chist.hello
    /\ wire' = Append(wire, [op |-> OP_CODE_HELLO, d |-> [ping_interval |-> HelloInterval],
                             re |-> 0])
    /\ chist' = [chist EXCEPT !.hello = TRUE]
    /\ UNCHANGED <<servervars, client, futures, fut, cpc, lpc, out>>

\* the server end answers the oldest REQUEST_GAMES the client has written and
\* it has not yet answered
S_Reply ==
    /\ chist.served < Cardinality({i \in 1..Len(out) : out[i].op = OP_CODE_REQUEST_GAMES})
    /\ wire' = Append(wire, [op |-> OP_CODE_LIST_GAMES, d |-> <<>>,
                             re |-> chist.served + 1])
    /\ chist' = [chist EXCEPT !.served = @ + 1]
    /\ UNCHANGED <<servervars, client, futures, fut, cpc, lpc, out>>

\* the requests whose reply _listen has now dealt with
HandledReply(msg) == IF msg.re > 0 THEN chist.handled \cup {msg.re} ELSE chist.handled

\* while self._running: self._listen(), up to the loop over self._futures[op]:
\* HELLO sets _ping_interval, starts the keep-alive thread and sets _ready;
\* PONG sets _pong_recv; a message whose op is not a key of _futures is left
L_Recv ==
    /\ lpc.pc = "recv"
    /\ client.running
    /\ wire # <<>>
    /\ wire' = Tail(wire)
    /\ LET msg == Head(wire)
       IN /\ client' =
                IF msg.op = OP_CODE_HELLO
                THEN [client EXCEPT !.ping_interval = msg.d.ping_interval,
                                    !.keep_alive = "loop",
                                    !.ready = TRUE]
                ELSE IF msg.op = OP_CODE_PONG
                THEN [client EXCEPT !.pong_recv = TRUE]
                ELSE client
          /\ IF msg.op \in ClientOps /\ futures[msg.op].has
             THEN /\ lpc' = [pc |-> "iter", msg |-> msg, i |-> 1]
                  /\ UNCHANGED chist
             ELSE /\ lpc' = [lpc EXCEPT !.pc = "recv"]
                  /\ chist' = [chist EXCEPT !.handled = HandledReply(msg)]
    /\ UNCHANGED <<servervars, futures, fut, cpc, out>>

\* for fut in self._futures[op]: fut.set_result(payload); set_result raises
\* InvalidStateError on a future that is finished, which ends the thread
L_Iter ==
    /\ lpc.pc = "iter"
    /\ LET l == futures[lpc.msg.op].list
       IN IF lpc.i > Len(l)
          THEN /\ lpc' = [lpc EXCEPT !.pc = "recv"]
               /\ chist' = [chist EXCEPT !.handled = HandledReply(lpc.msg)]
               /\ UNCHANGED fut
          ELSE IF fut[l[lpc.i]].state = "finished"
          THEN /\ lpc' = [lpc EXCEPT !.pc = "raised"]
               /\ UNCHANGED <<fut, chist>>
          ELSE /\ fut' = [fut EXCEPT ![l[lpc.i]] =
                             [state |-> "finished",
                              result |-> [d |-> lpc.msg.d, re |-> lpc.msg.re]]]
               /\ lpc' = [lpc EXCEPT !.i = @ + 1]
               /\ UNCHANGED chist
    /\ UNCHANGED <<servervars, client, futures, cpc, wire, out>>

\* list_games, first statement: self._send_data(responses.OP_CODE_REQUEST_GAMES),
\* called once wait_until_ready has returned
C_ListGames ==
    /\ cpc.pc = "idle"
    /\ client.ready
    /\ cpc.n < MaxRequests
    /\ out' = Append(out, [op |-> OP_CODE_REQUEST_GAMES])
    /\ cpc' = [pc |-> "sent", n |-> cpc.n + 1]
    /\ UNCHANGED <<servervars, client, futures, fut, lpc, wire, chist>>

\* _wait_for, up to fut.result: the future is created and put into
\* self._futures[op_code], in a new list on KeyError
C_Register ==
    /\ cpc.pc = "sent"
    /\ fut' = [fut EXCEPT ![cpc.n] = [NoFuture EXCEPT !.state = "pending"]]
    /\ futures' = [futures EXCEPT ![OP_CODE_LIST_GAMES] =
                      [has |-> TRUE,
                       list |-> IF @.has THEN Append(@.list, cpc.n) ELSE <<cpc.n>>]]
    /\ cpc' = [cpc EXCEPT !.pc = "waiting"]
    /\ UNCHANGED <<servervars, client, lpc, wire, out, chist>>

\* result = fut.result(timeout=None) returns once the future is finished
C_Result ==
    /\ cpc.pc = "waiting"
    /\ fut[cpc.n].state = "finished"
    /\ cpc' = [cpc EXCEPT !.pc = "resolved"]
    /\ UNCHANGED <<servervars, client, futures, fut, lpc, wire, out, chist>>

\* self._futures[op_code].remove(fut) takes out the first item equal to fut;
\* return result, and list_games returns [Game(g) for g in data]
C_Remove ==
    /\ cpc.pc = "resolved"
    /\ LET l == futures[OP_CODE_LIST_GAMES].list
           k == CHOOSE j \in 1..Len(l) : l[j] = cpc.n /\ \A m \in 1..(j - 1) : l[m] # cpc.n
       IN futures' = [futures EXCEPT ![OP_CODE_LIST_GAMES].list =
                         [j \in 1..(Len(l) - 1) |-> IF j < k THEN l[j] ELSE l[j + 1]]]
    /\ chist' = [chist EXCEPT !.returned = Append(@, fut[cpc.n].result)]
    /\ cpc' = [cpc EXCEPT !.pc = "idle"]
    /\ UNCHANGED <<servervars, client, fut, lpc, wire, out>>

\* create_game: responses.OP_CODE_CREATE_GAME is not defined, AttributeError
\* is raised before anything is written
C_CreateGame ==
    /\ cpc.pc = "idle"
    /\ ~ResponsesHas("OP_CODE_CREATE_GAME")
    /\ cpc' = [cpc EXCEPT !.pc = "raised"]
    /\ UNCHANGED <<servervars, client, futures, fut, lpc, wire, out, chist>>

\* _keep_alive: while self._running: self._send_data(responses.OP_CODE_PING),
\* then self._pong_recv.wait(timeout=20)
CK_Ping ==
    /\ client.keep_alive = "loop"
    /\ client.running
    /\ chist.pings < MaxPings
    /\ out' = Append(out, [op |-> OP_CODE_PING])
    /\ client' = [client EXCEPT !.keep_alive = "wait"]
    /\ chist' = [chist EXCEPT !.pings = @ + 1]
    /\ UNCHANGED <<servervars, futures, fut, cpc, lpc, wire>>

\* the loop test fails after _close
CK_Exit ==
    /\ client.keep_alive = "loop"
    /\ ~client.running
    /\ client' = [client EXCEPT !.keep_alive = "done"]
    /\ UNCHANGED <<servervars, futures, fut, cpc, lpc, wire, out, chist>>

\* the server end answers a PING with PONG
S_Pong ==
    /\ chist.pongs < chist.pings
    /\ wire' = Append(wire, [op |-> OP_CODE_PONG, d |-> <<>>, re |-> 0])
    /\ chist' = [chist EXCEPT !.pongs = @ + 1]
    /\ UNCHANGED <<servervars, client, futures, fut, cpc, lpc, out>>

\* wait returns True: self.latency is set; time.sleep(self._ping_interval)
CK_Received ==
    /\ client.keep_alive = "wait"
    /\ client.pong_recv
    /\ client' = [client EXCEPT !.keep_alive = "sleep"]
    /\ UNCHANGED <<servervars, futures, fut, cpc, lpc, wire, out, chist>>

\* wait returns False, no PONG came within 20 s: self._close() sets _running
\* False, closes the socket and clears _ready; time.sleep(self._ping_interval)
CK_Timeout ==
    /\ client.keep_alive = "wait"
    /\ ~client.pong_recv
    /\ client' = [client EXCEPT !.keep_alive = "sleep", !.running = FALSE,
                                !.ready = FALSE]
    /\ UNCHANGED <<servervars, futures, fut, cpc, lpc, wire, out, chist>>

\* after the sleep: self._pong_recv.clear()
CK_Clear ==
    /\ client.keep_alive = "sleep"
    /\ client' = [client EXCEPT !.keep_alive = "loop", !.pong_recv = FALSE]
    /\ UNCHANGED <<servervars, futures, fut, cpc, lpc, wire, out, chist>>

\* after _close: a recv that is blocked stays blocked; a recv that is called
\* on the closed socket raises, _recv_packet returns -1, None as _running is
\* False, and the loop of _handler ends
L_Closed ==
    /\ lpc.pc = "recv"
    /\ ~client.running
    /\ \E h \in {"blocked", "done"} : lpc' = [lpc EXCEPT !.pc = h]
    /\ UNCHANGED <<servervars, client, futures, fut, cpc, wire, out, chist>>

NextClient ==
    \/ L_Connect
    \/ S_Hello
    \/ S_Reply
    \/ L_Recv
    \/ L_Iter
    \/ L_Closed
    \/ CK_Ping
    \/ CK_Exit
    \/ S_Pong
    \/ CK_Received
    \/ CK_Timeout
    \/ CK_Clear
    \/ C_ListGames
    \/ C_Register
    \/ C_Result
    \/ C_Remove
    \/ C_CreateGame

SpecClient == InitWith(0) /\ [][NextClient]_vars

\* C39: the client's request calls complete: once the receive thread has dealt
\* with the LIST_GAMES reply to a request, the future of that call of
\* list_games is finished with the payload of that reply, whether the reply
\* came before or after the caller put its future into _futures.
C39_CallGetsItsReply ==
    \A k \in 1..MaxRequests :
       k \in chist.handled
          => /\ fut[k].state = "finished"
             /\ fut[k].result.re = k

====
